---- MODULE Spec2Model ----
(***************************************************************************)
(* Streaming CSV ingestion of water-temperature observations:              *)
(*   RecordDataAccumulator (add / getLocationResults),                     *)
(*   the common parser wiring (validateHeaders / normalizeHeaders /        *)
(*   getParser), and the web entry point (CsvParserWeb.parseCsv with its   *)
(*   CsvWebWorker).                                                        *)
(*                                                                         *)
(* Text that the code converts (toLowerCase, parseFloat) is a sequence of  *)
(* one-character strings, so that the conversions are computed.  Text that *)
(* the code only stores and compares (location IDs and names, messages)    *)
(* is a plain string.  A JavaScript Map is a sequence of <<key, value>>    *)
(* pairs in insertion order.  A JavaScript number is an extended rational  *)
(* [k, n, d]: finite n/d in lowest terms, +/-Infinity or NaN.              *)
(***************************************************************************)
EXTENDS Integers, Sequences, FiniteSets, Bags, TLC

VARIABLES
    accumulator,   \* RecordDataAccumulator: [locations, locationData]
    results,       \* << >> until getLocationResults has returned, then <<map>>
    nAdds,         \* number of add calls made so far
    seen,          \* history: bag of <<locationId, value>> of the records the
                   \* claims call accepted
    named,         \* history: for each location ID of an accepted record, in
                   \* the order of their first, [first, all]: the name in
                   \* the first such record, and the names in all of them
    \* the source and the tokenizer
    file,          \* the File: [lines, malformed]
    pos,           \* number of lines written to the parser so far
    parser,        \* the csv-parse Parser made by getParser
    emitted,       \* history: the records the tokenizer has pushed
    \* CsvWebWorker (worker thread)
    workerPc,      \* idle, piping, closed, done, failed, crashed
    currentParser, \* TRUE when currentParser is not null
    workerIsCancelled,  \* isCancelled of CsvWebWorker
    toWorker,      \* messages posted to the worker, not yet handled
    toCaller,      \* events posted to the caller, not yet handled
    \* CsvParserWeb.parseCsv (caller thread)
    worker,        \* TRUE when worker is not null
    workerTerminated,   \* worker.terminate() has been called
    isCancelled,   \* isCancelled of CsvParserWeb.parseCsv
    promiseReject, \* TRUE when promiseReject is not null
    cancelTimeout, \* null, armed, fired
    promise,       \* the results promise: [state, value]
    cancelCalls,   \* number of cancel() calls made so far
    cancelledMidStream, \* history: cancel() posted its message while the
                        \* worker was ingesting rows
    lateSettles,   \* history: who called resolve or reject when the promise
                   \* was settled already, of "message", "errorevent", "timer"
    \* csvParser.parseCSV (the file-system entry point)
    headersValidated,   \* headersValidated of parseCSV
    pipelinePc,    \* none, piping, closed, returned, thrown, uncaught
    \* CsvParserNode.parseCsv
    streamDestroyed,    \* stream.destroy() has been called
    \* WaterTemperatureAnalyzer.svelte
    fileProcessing,     \* << >> for null, else <<[state, results, error]>>
    processFilePc, \* none, awaiting (at await operation.results), done
    shownFile,     \* fileProcessing.file: 1 or 2 for the first or second
                   \* file, 0 when there is none
    secondCall     \* processFile of a second file: [pc, promise], pc as
                   \* processFilePc, promise the results of its operation

accVars == <<accumulator, results, nAdds, seen, named>>

sourceVars == <<file, pos, parser, emitted>>

workerVars == <<workerPc, currentParser, workerIsCancelled, toWorker, toCaller>>

callerVars == <<worker, workerTerminated, isCancelled, promiseReject,
                cancelTimeout, promise, cancelCalls, cancelledMidStream,
                lateSettles>>

nodeVars == <<headersValidated, pipelinePc, streamDestroyed>>

componentVars == <<fileProcessing, processFilePc, shownFile, secondCall>>

vars == <<accVars, sourceVars, workerVars, callerVars, nodeVars, componentVars>>

(***************************************************************************)
(* Bounds                                                                  *)
(***************************************************************************)
MaxAdds == 3

MaxRows == 2

MaxCancelCalls == 2

(***************************************************************************)
(* JavaScript Map                                                          *)
(***************************************************************************)
MapHas(m, key) == \E i \in 1..Len(m) : m[i][1] = key

MapIndex(m, key) == CHOOSE i \in 1..Len(m) : m[i][1] = key

MapGet(m, key) == m[MapIndex(m, key)][2]

MapSet(m, key, value) ==
    IF MapHas(m, key)
    THEN [m EXCEPT ![MapIndex(m, key)] = <<key, value>>]
    ELSE Append(m, <<key, value>>)

MapKeys(m) == {m[i][1] : i \in 1..Len(m)}

\* processFile has not been called for a second file
NoSecondCall ==
    [pc |-> "none", promise |-> [state |-> "pending", value |-> << >>]]

(***************************************************************************)
(* JavaScript numbers                                                      *)
(***************************************************************************)
Abs(x) == IF x < 0 THEN -x ELSE x

Sign(x) == IF x < 0 THEN -1 ELSE IF x > 0 THEN 1 ELSE 0

RECURSIVE GCD(_, _)
GCD(a, b) == IF b = 0 THEN a ELSE GCD(b, a % b)

RECURSIVE Pow10(_)
Pow10(e) == IF e = 0 THEN 1 ELSE 10 * Pow10(e - 1)

NaN == [k |-> "nan", n |-> 0, d |-> 1]

Infinity(sign) == [k |-> "inf", n |-> sign, d |-> 1]

Num(n, d) ==
    LET g == GCD(Abs(n), d)
    IN  [k |-> "fin", n |-> n \div g, d |-> d \div g]

isNaN(x) == x.k = "nan"

\* x * y
Times(x, y) ==
    IF x.k = "nan" \/ y.k = "nan" THEN NaN
    ELSE IF x.k = "inf" \/ y.k = "inf"
         THEN IF Sign(x.n) * Sign(y.n) = 0 THEN NaN
              ELSE Infinity(Sign(x.n) * Sign(y.n))
         ELSE Num(x.n * y.n, x.d * y.d)

\* x + y
Plus(x, y) ==
    IF x.k = "nan" \/ y.k = "nan" THEN NaN
    ELSE IF x.k = "inf" /\ y.k = "inf"
         THEN IF x.n = y.n THEN x ELSE NaN
         ELSE IF x.k = "inf" THEN x
         ELSE IF y.k = "inf" THEN y
         ELSE Num(x.n * y.d + y.n * x.d, x.d * y.d)

\* x / c for an integer c > 0
DividedBy(x, c) ==
    IF x.k = "fin" THEN Num(x.n, x.d * c) ELSE x

\* Math.floor(x)
MathFloor(x) ==
    IF x.k = "fin" THEN Num(x.n \div x.d, 1) ELSE x

(***************************************************************************)
(* JavaScript strings that the code converts                               *)
(***************************************************************************)
UpperCase == <<"A","B","C","D","E","F","G","H","I","J","K","L","M",
               "N","O","P","Q","R","S","T","U","V","W","X","Y","Z">>

LowerCase == <<"a","b","c","d","e","f","g","h","i","j","k","l","m",
               "n","o","p","q","r","s","t","u","v","w","x","y","z">>

Digits == <<"0","1","2","3","4","5","6","7","8","9">>

WhiteSpace == {" ", "\t"}

toLowerChar(c) ==
    IF \E i \in 1..26 : UpperCase[i] = c
    THEN LowerCase[CHOOSE i \in 1..26 : UpperCase[i] = c]
    ELSE c

toLowerCase(s) == [i \in 1..Len(s) |-> toLowerChar(s[i])]

IsDigit(c) == \E i \in 1..10 : Digits[i] = c

DigitValue(c) == (CHOOSE i \in 1..10 : Digits[i] = c) - 1

\* length of the run of digits of s that starts at position i
DigitRun(s, i) ==
    LET ends == {j \in i..(Len(s) + 1) : \A x \in i..(j - 1) : IsDigit(s[x])}
    IN  (CHOOSE j \in ends : \A j2 \in ends : j2 <= j) - i

\* the natural number written by the n digits of s that start at position i
RECURSIVE DigitsToNat(_, _, _)
DigitsToNat(s, i, n) ==
    IF n = 0 THEN 0
    ELSE 10 * DigitsToNat(s, i, n - 1) + DigitValue(s[i + n - 1])

StartsWithAt(s, i, lit) ==
    /\ i + Len(lit) - 1 <= Len(s)
    /\ \A x \in 1..Len(lit) : s[i + x - 1] = lit[x]

INFINITY_LITERAL == <<"I","n","f","i","n","i","t","y">>

\* parseFloat(s): leading white space is skipped, then the longest prefix
\* that is a decimal literal (sign, digits, fraction; or Infinity) is
\* converted; NaN when there is none.  Exponents are not in the alphabet.
parseFloat(s) ==
    LET starts  == {i \in 1..(Len(s) + 1) :
                       \A x \in 1..(i - 1) : s[x] \in WhiteSpace}
        i0      == CHOOSE i \in starts : \A i2 \in starts : i2 <= i
        hasSign == i0 <= Len(s) /\ s[i0] \in {"+", "-"}
        sgn     == IF hasSign /\ s[i0] = "-" THEN -1 ELSE 1
        i1      == IF hasSign THEN i0 + 1 ELSE i0
        nInt    == DigitRun(s, i1)
        iDot    == i1 + nInt
        hasDot  == iDot <= Len(s) /\ s[iDot] = "."
        nFrac   == IF hasDot THEN DigitRun(s, iDot + 1) ELSE 0
    IN  IF StartsWithAt(s, i1, INFINITY_LITERAL) THEN Infinity(sgn)
        ELSE IF nInt + nFrac = 0 THEN NaN
        ELSE Num(sgn * (DigitsToNat(s, i1, nInt) * Pow10(nFrac)
                          + DigitsToNat(s, iDot + 1, nFrac)),
                 Pow10(nFrac))

(***************************************************************************)
(* RecordDataAccumulator                                                   *)
(***************************************************************************)
TEMPERATURE_WATER ==
    <<"T","e","m","p","e","r","a","t","u","r","e",","," ","w","a","t","e","r">>

Undefined == <<"undefined">>

CHARACTERISTIC_NAME_MAP ==
    << <<toLowerCase(TEMPERATURE_WATER), TEMPERATURE_WATER>> >>

NewAccumulator == [locationData |-> << >>, locations |-> << >>]

\* CHARACTERISTIC_NAME_MAP.get(record.CharacteristicName.toLowerCase())
lookupCharacteristicName_CaseSensitive(record) ==
    IF MapHas(CHARACTERISTIC_NAME_MAP, record.CharacteristicName)
    THEN MapGet(CHARACTERISTIC_NAME_MAP, record.CharacteristicName)
    ELSE Undefined

lookupCharacteristicName(record) ==
    IF MapHas(CHARACTERISTIC_NAME_MAP, toLowerCase(record.CharacteristicName))
    THEN MapGet(CHARACTERISTIC_NAME_MAP, toLowerCase(record.CharacteristicName))
    ELSE Undefined

\* if (!this.locations.has(locationId)) this.locations.set(...)
trackLocationName_LastWins(locations, locationId, locationName) ==
    MapSet(locations, locationId, locationName)

trackLocationName(locations, locationId, locationName) ==
    IF ~MapHas(locations, locationId)
    THEN MapSet(locations, locationId, locationName)
    ELSE locations

\* if (!this.locationData.has(locationId)) this.locationData.set(..., new Map())
ensureHistogram(locationData, locationId) ==
    IF ~MapHas(locationData, locationId)
    THEN MapSet(locationData, locationId, << >>)
    ELSE locationData

\* truncation toward zero, what the mutant below computes
MathTrunc(x) ==
    IF x.k = "fin" THEN Num(Sign(x.n) * (Abs(x.n) \div x.d), 1) ELSE x

quantize_TruncatesTowardZero(resultValue) ==
    MathTrunc(Times(resultValue, Num(1000, 1)))

quantize_Rounds(resultValue) ==
    MathFloor(Plus(Times(resultValue, Num(1000, 1)), Num(1, 2)))

\* Math.floor(resultValue * 1000)
quantize(resultValue) == MathFloor(Times(resultValue, Num(1000, 1)))

countValue_CountsFromZero(histogram, resultValueMillis) ==
    MapSet(histogram, resultValueMillis,
           IF MapHas(histogram, resultValueMillis)
           THEN MapGet(histogram, resultValueMillis) + 1
           ELSE 0)

countValue_KeepsLatestOnly(histogram, resultValueMillis) ==
    << <<resultValueMillis, 1>> >>

countValue_ResetsCount(histogram, resultValueMillis) ==
    MapSet(histogram, resultValueMillis, 1)

\* get(resultValueMillis) ?? 0, then set(resultValueMillis, count + 1)
countValue(histogram, resultValueMillis) ==
    LET locationValueCount == IF MapHas(histogram, resultValueMillis)
                              THEN MapGet(histogram, resultValueMillis)
                              ELSE 0
    IN  MapSet(histogram, resultValueMillis, locationValueCount + 1)

add_TrackBeforeNaNCheck(acc, record) ==
    LET locationId   == record.MonitoringLocationID
        locationName == record.MonitoringLocationName
        resultValue  == parseFloat(record.ResultValue)
        locations1   == trackLocationName(acc.locations, locationId, locationName)
        data1        == ensureHistogram(acc.locationData, locationId)
    IN  IF lookupCharacteristicName(record) = TEMPERATURE_WATER
        THEN IF isNaN(resultValue)
             THEN [locations |-> locations1, locationData |-> acc.locationData]
             ELSE [locations    |-> locations1,
                   locationData |->
                       MapSet(data1, locationId,
                              countValue(MapGet(data1, locationId),
                                         quantize(resultValue)))]
        ELSE acc

add(acc, record) ==
    LET locationId   == record.MonitoringLocationID
        locationName == record.MonitoringLocationName
        resultValue  == parseFloat(record.ResultValue)
        locations1   == trackLocationName(acc.locations, locationId, locationName)
        data1        == ensureHistogram(acc.locationData, locationId)
    IN  IF lookupCharacteristicName(record) = TEMPERATURE_WATER
        THEN IF isNaN(resultValue)
             THEN acc
             ELSE [locations    |-> locations1,
                   locationData |->
                       MapSet(data1, locationId,
                              countValue(MapGet(data1, locationId),
                                         quantize(resultValue)))]
        ELSE acc

\* the inner loop of getLocationResults over the first n histogram entries
RECURSIVE HistogramSum(_, _)
HistogramSum(histogram, n) ==
    IF n = 0 THEN [sumMillis |-> Num(0, 1), count |-> 0]
    ELSE LET rest   == HistogramSum(histogram, n - 1)
             millis == histogram[n][1]
             count  == histogram[n][2]
         IN  [sumMillis |-> Plus(rest.sumMillis, Times(millis, Num(count, 1))),
              count     |-> rest.count + count]

\* the second loop of getLocationResults over the first n locations
RECURSIVE LocationLoop(_, _)
LocationLoop(locationToSumMillisAndCount, n) ==
    IF n = 0
    THEN [results |-> << >>, overallSumMillis |-> Num(0, 1), overallCount |-> 0]
    ELSE LET rest       == LocationLoop(locationToSumMillisAndCount, n - 1)
             locationId == locationToSumMillisAndCount[n][1]
             sumMillis  == locationToSumMillisAndCount[n][2].sumMillis
             count      == locationToSumMillisAndCount[n][2].count
         IN  [results |->
                  MapSet(rest.results, locationId,
                         [average |-> DividedBy(DividedBy(sumMillis, 1000), count)]),
              overallSumMillis |-> Plus(rest.overallSumMillis, sumMillis),
              overallCount     |-> rest.overallCount + count]

OverallAverage(overallSumMillis, overallCount) ==
    DividedBy(DividedBy(overallSumMillis, 1000), overallCount)

hasOverallCount_MoreThanOne(overallCount) == overallCount > 1

\* if (overallCount > 0)
hasOverallCount(overallCount) == overallCount > 0

getLocationResults_MeanOfAverages(acc) ==
    LET locationToSumMillisAndCount ==
            [i \in 1..Len(acc.locationData) |->
                <<acc.locationData[i][1],
                  HistogramSum(acc.locationData[i][2],
                               Len(acc.locationData[i][2]))>>]
        loop == LocationLoop(locationToSumMillisAndCount,
                             Len(locationToSumMillisAndCount))
        averages == [i \in 1..Len(loop.results) |->
                        <<i, [sumMillis |-> loop.results[i][2].average,
                              count     |-> 1]>>]
    IN  IF loop.overallCount > 0
        THEN MapSet(loop.results, "-ALL-",
                    [average |->
                        DividedBy(LocationLoop(averages, Len(averages)).overallSumMillis,
                                  Len(averages))])
        ELSE loop.results

getLocationResults(acc) ==
    LET locationToSumMillisAndCount ==
            [i \in 1..Len(acc.locationData) |->
                <<acc.locationData[i][1],
                  HistogramSum(acc.locationData[i][2],
                               Len(acc.locationData[i][2]))>>]
        loop == LocationLoop(locationToSumMillisAndCount,
                             Len(locationToSumMillisAndCount))
    IN  IF hasOverallCount(loop.overallCount)
        THEN MapSet(loop.results, "-ALL-",
                    [average |-> OverallAverage(loop.overallSumMillis,
                                                loop.overallCount)])
        ELSE loop.results

afterGetLocationResults_Emptied(acc) == NewAccumulator

\* the accumulator once getLocationResults has returned: the method reads
\* this.locationData and writes only its local maps
afterGetLocationResults(acc) == acc

(***************************************************************************)
(* Header validation and normalisation (the common parser library)         *)
(***************************************************************************)
RESULT_VALUE == <<"R","e","s","u","l","t","V","a","l","u","e">>

CHARACTERISTIC_NAME ==
    <<"C","h","a","r","a","c","t","e","r","i","s","t","i","c","N","a","m","e">>

MONITORING_LOCATION_ID ==
    <<"M","o","n","i","t","o","r","i","n","g","L","o","c","a","t","i","o","n","I","D">>

MONITORING_LOCATION_NAME ==
    <<"M","o","n","i","t","o","r","i","n","g","L","o","c","a","t","i","o","n","N","a","m","e">>

REQUIRED_COLUMNS ==
    <<RESULT_VALUE, CHARACTERISTIC_NAME, MONITORING_LOCATION_ID,
      MONITORING_LOCATION_NAME>>

REQUIRED_COLUMN_NAME_MAP ==
    [i \in 1..Len(REQUIRED_COLUMNS) |->
        <<toLowerCase(REQUIRED_COLUMNS[i]), REQUIRED_COLUMNS[i]>>]

\* headers.includes(x)
Includes(list, x) == \E i \in 1..Len(list) : list[i] = x

NoError == [thrown |-> FALSE, message |-> << >>]

Thrown(message) == [thrown |-> TRUE, message |-> message]

MissingColumnMessage(canonicalName) ==
    <<"Missing required column: ", canonicalName, " (case-insensitive)">>

validateHeaders_NamesLastMissing(headers) ==
    LET normalizedHeaders == [i \in 1..Len(headers) |-> toLowerCase(headers[i])]
        missing == {i \in 1..Len(REQUIRED_COLUMN_NAME_MAP) :
                       ~Includes(normalizedHeaders, REQUIRED_COLUMN_NAME_MAP[i][1])}
    IN  IF missing = {} THEN NoError
        ELSE LET last == CHOOSE i \in missing : \A j \in missing : j <= i
             IN  Thrown(MissingColumnMessage(REQUIRED_COLUMN_NAME_MAP[last][2]))

\* the error validateHeaders throws, if any: that of the first key of
\* REQUIRED_COLUMN_NAME_MAP that the lower-cased headers do not include
validateHeaders(headers) ==
    LET normalizedHeaders == [i \in 1..Len(headers) |-> toLowerCase(headers[i])]
        missing == {i \in 1..Len(REQUIRED_COLUMN_NAME_MAP) :
                       ~Includes(normalizedHeaders, REQUIRED_COLUMN_NAME_MAP[i][1])}
    IN  IF missing = {} THEN NoError
        ELSE LET first == CHOOSE i \in missing : \A j \in missing : i <= j
             IN  Thrown(MissingColumnMessage(REQUIRED_COLUMN_NAME_MAP[first][2]))

normalizeHeaders_KeepsSpelling(headers) == headers

normalizeHeaders(headers) ==
    [i \in 1..Len(headers) |->
        LET lowercase == toLowerCase(headers[i])
        IN  IF MapHas(REQUIRED_COLUMN_NAME_MAP, lowercase)
            THEN MapGet(REQUIRED_COLUMN_NAME_MAP, lowercase)
            ELSE headers[i]]

\* the columns option of getParser: validate, then normalise
columnsCallback(headers) ==
    LET error == validateHeaders(headers)
    IN  IF error.thrown
        THEN [error |-> error, columns |-> << >>]
        ELSE [error |-> NoError, columns |-> normalizeHeaders(headers)]

(***************************************************************************)
(* The tokenizer (csv-parse) as getParser configures it: columns callback  *)
(* on the first line, trim: true, one record per later line.  A line is    *)
(* its sequence of raw fields.                                             *)
(***************************************************************************)
\* trim: true removes the white space around a field
Trim_Nothing(s) == s

\* String.prototype.trim, and the trim option of the tokenizer
Trim(s) ==
    LET kept == {i \in 1..Len(s) : s[i] \notin WhiteSpace}
    IN  IF kept = {} THEN << >>
        ELSE LET lo == CHOOSE i \in kept : \A j \in kept : i <= j
                 hi == CHOOSE i \in kept : \A j \in kept : j <= i
             IN  [i \in 1..(hi - lo + 1) |-> s[lo + i - 1]]

\* the value of the record's property `name`: the field under the last
\* column of that name
FieldOf(columns, fields, name) ==
    LET at == {i \in 1..Len(columns) : columns[i] = name}
    IN  fields[CHOOSE i \in at : \A j \in at : j <= i]

RecordOf(columns, fields) ==
    [ResultValue            |-> Trim(FieldOf(columns, fields, RESULT_VALUE)),
     CharacteristicName     |-> Trim(FieldOf(columns, fields, CHARACTERISTIC_NAME)),
     MonitoringLocationID   |-> FieldOf(columns, fields, MONITORING_LOCATION_ID),
     MonitoringLocationName |-> FieldOf(columns, fields, MONITORING_LOCATION_NAME)]

QUOTE_NOT_CLOSED == <<"Quote Not Closed">>

NewParser ==
    [status   |-> "open",     \* open, ending, ended, errored, destroyed
     columns  |-> << >>,      \* << >> until the first line, then <<columns>>
     readable |-> << >>,      \* records pushed and not yet read
     error    |-> NoError]    \* the error to emit, once errored

\* parser.write(line)
parserWrite(p, line) ==
    IF p.status # "open" THEN p
    ELSE IF p.columns = << >>
    THEN LET called == columnsCallback([i \in 1..Len(line) |-> Trim(line[i])])
         IN  IF called.error.thrown
             THEN [p EXCEPT !.status = "errored", !.error = called.error]
             ELSE [p EXCEPT !.columns = <<called.columns>>]
    ELSE [p EXCEPT !.readable = Append(@, RecordOf(p.columns[1], line))]

\* parser.end(): the tokenizer flushes; an unclosed quote is reported here
parserEnd(p, malformed) ==
    IF p.status # "open" THEN p
    ELSE IF malformed
    THEN [p EXCEPT !.status = "errored", !.error = Thrown(QUOTE_NOT_CLOSED)]
    ELSE [p EXCEPT !.status = "ending"]

RECURSIVE readAll_NewestFirst(_, _, _)
readAll_NewestFirst(acc, readable, n) ==
    IF n = 0 THEN acc
    ELSE readAll_NewestFirst(add(acc, readable[n]), readable, n - 1)

\* the readable handler: while ((record = parser.read()) !== null) add(record)
RECURSIVE readAll(_, _, _)
readAll(acc, readable, n) ==
    IF n = 0 THEN acc ELSE add(readAll(acc, readable, n - 1), readable[n])

endIsDue_IgnoresUnread(p) == p.status = "ending"

\* the stream emits 'end' once end() was called and every record was read
endIsDue(p) == p.status = "ending" /\ p.readable = << >>

\* the end handler's ParseResults
ParseResults(acc) ==
    [monitoringLocations       |-> acc.locations,
     monitoringLocationResults |-> getLocationResults(acc)]

(***************************************************************************)
(* The accumulator driven as getParser drives it: add for every record     *)
(* read, then getLocationResults once at the end                           *)
(***************************************************************************)
TEMPERATURE_WATER_UPPER ==
    <<"T","E","M","P","E","R","A","T","U","R","E",","," ","W","A","T","E","R">>

CharacteristicNames == {TEMPERATURE_WATER, TEMPERATURE_WATER_UPPER, <<"p","H">>}

ResultValues ==
    { <<"1","0",".","0">>, <<"2","0",".","0">>, <<"-","0",".","5">>,
      <<"i","n","v","a","l","i","d">> }

LocationIDs == {"A", "B", "-ALL-"}

LocationNames == {"Site A", "Site B"}

Records ==
    [CharacteristicName : CharacteristicNames, ResultValue : ResultValues,
     MonitoringLocationID : LocationIDs, MonitoringLocationName : LocationNames]

\* the vocabulary of the claims about add
EqualsIgnoringCase(a, b) == toLowerCase(a) = toLowerCase(b)

ParsesToNumber(s) == ~isNaN(parseFloat(s))

IsAccepted(r) ==
    /\ EqualsIgnoringCase(r.CharacteristicName, TEMPERATURE_WATER)
    /\ ParsesToNumber(r.ResultValue)

\* the variables of the source, the worker and the caller before anything
\* has been started
NothingStarted ==
    /\ file = [lines |-> << >>, malformed |-> FALSE]
    /\ pos = 0
    /\ parser = NewParser
    /\ emitted = << >>
    /\ workerPc = "idle"
    /\ currentParser = FALSE
    /\ workerIsCancelled = FALSE
    /\ toWorker = << >>
    /\ toCaller = << >>
    /\ worker = FALSE
    /\ workerTerminated = FALSE
    /\ isCancelled = FALSE
    /\ promiseReject = FALSE
    /\ cancelTimeout = "null"
    /\ promise = [state |-> "pending", value |-> << >>]
    /\ cancelCalls = 0
    /\ cancelledMidStream = FALSE
    /\ lateSettles = {}
    /\ headersValidated = FALSE
    /\ pipelinePc = "none"
    /\ streamDestroyed = FALSE
    /\ fileProcessing = << >>
    /\ processFilePc = "none"
    /\ shownFile = 0
    /\ secondCall = NoSecondCall

InitAcc ==
    /\ accumulator = NewAccumulator
    /\ results = << >>
    /\ nAdds = 0
    /\ seen = EmptyBag
    /\ named = << >>
    /\ NothingStarted

AddRecord(r) ==
    /\ nAdds < MaxAdds
    /\ results = << >>
    /\ accumulator' = add(accumulator, r)
    /\ nAdds' = nAdds + 1
    /\ seen' = IF IsAccepted(r)
               THEN seen (+) SetToBag({<<r.MonitoringLocationID,
                                         parseFloat(r.ResultValue)>>})
               ELSE seen
    /\ named' = IF IsAccepted(r)
                THEN MapSet(named, r.MonitoringLocationID,
                            IF MapHas(named, r.MonitoringLocationID)
                            THEN [MapGet(named, r.MonitoringLocationID)
                                    EXCEPT !.all = @ \cup {r.MonitoringLocationName}]
                            ELSE [first |-> r.MonitoringLocationName,
                                  all   |-> {r.MonitoringLocationName}])
                ELSE named
    /\ UNCHANGED <<results, sourceVars, workerVars, callerVars>>
    /\ UNCHANGED nodeVars
    /\ UNCHANGED componentVars

EndOfRecords ==
    /\ results = << >>
    /\ results' = <<getLocationResults(accumulator)>>
    /\ accumulator' = afterGetLocationResults(accumulator)
    /\ UNCHANGED <<nAdds, seen, named, sourceVars, workerVars, callerVars>>
    /\ UNCHANGED nodeVars
    /\ UNCHANGED componentVars

NextAcc ==
    \/ \E r \in Records : AddRecord(r)
    \/ EndOfRecords

SpecAcc == InitAcc /\ [][NextAcc]_vars

\* records of water temperature whose values are negative, have a
\* fraction of a millidegree, or are not finite
QuantizedValues ==
    { <<"1",".","5">>, <<"-","0",".","0","0","0","5">>,
      <<"-","2",".","5">>, INFINITY_LITERAL }

QuantizedRecords ==
    [ResultValue            : QuantizedValues,
     CharacteristicName     : {TEMPERATURE_WATER},
     MonitoringLocationID   : {"A", "B"},
     MonitoringLocationName : {"Site A"}]

NextQuantized ==
    \/ \E r \in QuantizedRecords : AddRecord(r)
    \/ EndOfRecords

SpecQuantized == InitAcc /\ [][NextQuantized]_vars

\* getLocationResults is called once more, on the accumulator as the first
\* call left it; results holds what the two calls returned
GetLocationResultsAgain ==
    /\ Len(results) = 1
    /\ results' = Append(results, getLocationResults(accumulator))
    /\ accumulator' = afterGetLocationResults(accumulator)
    /\ UNCHANGED <<nAdds, seen, named, sourceVars, workerVars, callerVars>>
    /\ UNCHANGED nodeVars
    /\ UNCHANGED componentVars

NextRepeated ==
    \/ \E r \in QuantizedRecords : AddRecord(r)
    \/ EndOfRecords
    \/ GetLocationResultsAgain

SpecRepeated == InitAcc /\ [][NextRepeated]_vars

(***************************************************************************)
(* Files                                                                   *)
(***************************************************************************)
HEADER_LINE ==
    <<toLowerCase(RESULT_VALUE), CHARACTERISTIC_NAME,
      MONITORING_LOCATION_ID, MONITORING_LOCATION_NAME>>

\* data lines, their fields in the order of HEADER_LINE
DataLines ==
    { << <<"1","0",".","0">>, TEMPERATURE_WATER, "A", "Site A" >>,
      << <<"2","0",".","0">>, TEMPERATURE_WATER_UPPER, "B", "Site B" >> }

\* a line without its i-th field (the whole line for i = 0)
WithoutField(line, i) ==
    IF i = 0 THEN line
    ELSE [j \in 1..(Len(line) - 1) |-> IF j < i THEN line[j] ELSE line[j + 1]]

DataLineSeqs == UNION {[1..n -> DataLines] : n \in 0..MaxRows}

Files ==
    {[lines |-> << >>, malformed |-> m] : m \in BOOLEAN}
    \cup
    {[lines |-> <<WithoutField(HEADER_LINE, i)>>
                  \o [j \in 1..Len(rows) |-> WithoutField(rows[j], i)],
      malformed |-> m] :
        i \in 0..Len(HEADER_LINE), rows \in DataLineSeqs, m \in BOOLEAN}

\* a header no required column matches
OTHER_COLUMN == <<"U","n","i","t">>

\* the columns a file may have: the header and the field of its data lines
FileColumns ==
    << [header |-> RESULT_VALUE,             field |-> <<"1","0",".","0">>],
       [header |-> CHARACTERISTIC_NAME,      field |-> TEMPERATURE_WATER],
       [header |-> MONITORING_LOCATION_ID,   field |-> "A"],
       [header |-> MONITORING_LOCATION_NAME, field |-> "Site A"],
       [header |-> OTHER_COLUMN,             field |-> "deg C"] >>

Padded(s) == <<" ">> \o s \o <<"\t", " ">>

\* the spellings of a header: as is, lower case, and both amid white space
HeaderSpellings(s) == <<s, toLowerCase(s), Padded(s), Padded(toLowerCase(s))>>

Reverse(list) == [i \in 1..Len(list) |-> list[Len(list) + 1 - i]]

\* the elements of list at the indices of kept, in their order
Pick(list, kept) ==
    LET indices == SelectSeq([i \in 1..Len(list) |-> i], LAMBDA i : i \in kept)
    IN  [j \in 1..Len(indices) |-> list[indices[j]]]

\* files of well-formed lines whose header has any of the columns, in
\* either order and in any spelling, followed by no or one data line
HeaderFiles ==
    {LET columns == IF reversed THEN Reverse(Pick(FileColumns, kept))
                    ELSE Pick(FileColumns, kept)
         header  == [i \in 1..Len(columns) |->
                        HeaderSpellings(columns[i].header)[spelling]]
         line    == [i \in 1..Len(columns) |-> columns[i].field]
     IN  [lines |-> IF withLine THEN <<header, line>> ELSE <<header>>,
          malformed |-> FALSE] :
        kept \in SUBSET (1..Len(FileColumns)) \ {{}},
        spelling \in 1..Len(HeaderSpellings(OTHER_COLUMN)),
        reversed \in BOOLEAN, withLine \in BOOLEAN}

(***************************************************************************)
(* Worker messages                                                         *)
(***************************************************************************)
ArrayFromEntries_Reversed(map) == Reverse(map)

\* Array.from(map.entries())
ArrayFromEntries(map) == [i \in 1..Len(map) |-> <<map[i][1], map[i][2]>>]

\* new Map(array)
RECURSIVE NewMap(_, _)
NewMap(array, n) ==
    IF n = 0 THEN << >>
    ELSE MapSet(NewMap(array, n - 1), array[n][1], array[n][2])

serializeResults(r) ==
    [monitoringLocations       |-> ArrayFromEntries(r.monitoringLocations),
     monitoringLocationResults |-> ArrayFromEntries(r.monitoringLocationResults)]

deserializeResults(serialized) ==
    [monitoringLocations |->
         NewMap(serialized.monitoringLocations,
                Len(serialized.monitoringLocations)),
     monitoringLocationResults |->
         NewMap(serialized.monitoringLocationResults,
                Len(serialized.monitoringLocationResults))]

FileMessage == [type |-> "file", results |-> << >>, error |-> << >>]

CancelMessage == [type |-> "cancel", results |-> << >>, error |-> << >>]

SuccessMessage(r) == [type |-> "success", results |-> r, error |-> << >>]

ErrorMessage(message) == [type |-> "error", results |-> << >>, error |-> message]

CancelledMessage == [type |-> "cancelled", results |-> << >>, error |-> << >>]

\* the error event of the Worker object (dispatched to worker.onerror)
ErrorEvent(message) == [type |-> "errorevent", results |-> << >>, error |-> message]

Error(message) == [name |-> "Error", message |-> message]

CancellationError ==
    [name |-> "CancellationError", message |-> <<"CSV parsing was cancelled">>]

SCRIPT_LOAD_FAILED == <<"Failed to load worker script">>

(***************************************************************************)
(* CsvWebWorker                                                            *)
(***************************************************************************)
workerRuns == ~workerTerminated /\ workerPc # "crashed"

postUnlessCancelled_Always(cancelled, queue, message) == Append(queue, message)

\* if (!isCancelled) { ... self.postMessage(response); }
postUnlessCancelled(cancelled, queue, message) ==
    IF ~cancelled THEN Append(queue, message) ELSE queue

\* self.onmessage, message.type === 'file': startProcessing(file.stream())
\* makes the parser and starts piping the stream into it
WorkerOnFile ==
    /\ workerRuns
    /\ toWorker # << >> /\ Head(toWorker).type = "file"
    /\ toWorker' = Tail(toWorker)
    /\ workerIsCancelled' = FALSE
    /\ parser' = NewParser
    /\ currentParser' = TRUE
    /\ workerPc' = "piping"
    /\ UNCHANGED <<accVars, file, pos, emitted, toCaller, callerVars>>
    /\ UNCHANGED nodeVars
    /\ UNCHANGED componentVars

\* WritableStream.write(chunk): parser.write(text).  Nothing stops the
\* pipe when the parser has failed or was destroyed.
PipeWrite ==
    /\ workerRuns
    /\ workerPc = "piping"
    /\ pos < Len(file.lines)
    /\ parser' = parserWrite(parser, file.lines[pos + 1])
    /\ pos' = pos + 1
    /\ emitted' = IF Len(parser'.readable) > Len(parser.readable)
                  THEN Append(emitted, parser'.readable[Len(parser'.readable)])
                  ELSE emitted
    /\ UNCHANGED <<accVars, file, workerVars, callerVars>>
    /\ UNCHANGED nodeVars
    /\ UNCHANGED componentVars

\* WritableStream.close(): parser.end()
PipeClose ==
    /\ workerRuns
    /\ workerPc = "piping"
    /\ pos = Len(file.lines)
    /\ parser' = parserEnd(parser, file.malformed)
    /\ workerPc' = "closed"
    /\ UNCHANGED <<accVars, file, pos, emitted, currentParser,
                   workerIsCancelled, toWorker, toCaller, callerVars>>
    /\ UNCHANGED nodeVars
    /\ UNCHANGED componentVars

\* parser.on('readable'): every record pushed so far is read and added
OnReadable ==
    /\ workerRuns
    /\ parser.status \in {"open", "ending"}
    /\ parser.readable # << >>
    /\ accumulator' = readAll(accumulator, parser.readable, Len(parser.readable))
    /\ nAdds' = nAdds + Len(parser.readable)
    /\ parser' = [parser EXCEPT !.readable = << >>]
    /\ UNCHANGED <<results, seen, named, file, pos, emitted, workerVars,
                   callerVars>>
    /\ UNCHANGED nodeVars
    /\ UNCHANGED componentVars

\* parser.on('end'): resolve(results); startProcessing clears currentParser
\* and returns; the then-callback posts success unless cancelled
OnParserEnd ==
    /\ workerRuns
    /\ endIsDue(parser)
    /\ parser' = [parser EXCEPT !.status = "ended"]
    /\ currentParser' = FALSE
    /\ workerPc' = "done"
    /\ toCaller' = postUnlessCancelled(workerIsCancelled, toCaller,
                       SuccessMessage(serializeResults(ParseResults(accumulator))))
    /\ UNCHANGED <<accVars, file, pos, emitted, workerIsCancelled, toWorker,
                   callerVars>>
    /\ UNCHANGED nodeVars
    /\ UNCHANGED componentVars

UNKNOWN_ERROR == <<"Unknown error occurred">>

errorMessageOf_Unknown(error) == UNKNOWN_ERROR

\* error instanceof Error ? error.message : 'Unknown error occurred'
errorMessageOf(error) == IF error.thrown THEN error.message ELSE UNKNOWN_ERROR

\* parser.on('error'): reject(error); the catch-callback clears
\* currentParser and posts the error's message unless cancelled
OnParserError ==
    /\ workerRuns
    /\ parser.status = "errored"
    /\ parser' = [parser EXCEPT !.status = "failed"]
    /\ workerPc' = "failed"
    /\ currentParser' = IF ~workerIsCancelled THEN FALSE ELSE currentParser
    /\ toCaller' = postUnlessCancelled(workerIsCancelled, toCaller,
                       ErrorMessage(errorMessageOf(parser.error)))
    /\ UNCHANGED <<accVars, file, pos, emitted, workerIsCancelled, toWorker,
                   callerVars>>
    /\ UNCHANGED nodeVars
    /\ UNCHANGED componentVars

\* parser.destroy(): nothing is emitted any more
parserDestroy(p) ==
    IF p.status \in {"open", "ending"}
    THEN [p EXCEPT !.status = "destroyed", !.readable = << >>]
    ELSE p

\* self.onmessage, message.type === 'cancel'
WorkerOnCancel ==
    /\ workerRuns
    /\ toWorker # << >> /\ Head(toWorker).type = "cancel"
    /\ toWorker' = Tail(toWorker)
    /\ workerIsCancelled' = TRUE
    /\ parser' = IF currentParser THEN parserDestroy(parser) ELSE parser
    /\ currentParser' = FALSE
    /\ toCaller' = Append(toCaller, CancelledMessage)
    /\ UNCHANGED <<accVars, file, pos, emitted, workerPc, callerVars>>
    /\ UNCHANGED nodeVars
    /\ UNCHANGED componentVars

\* the worker script cannot be loaded: the Worker object gets an error event
WorkerFailsToLoad ==
    /\ workerRuns
    /\ workerPc = "idle"
    /\ workerPc' = "crashed"
    /\ toCaller' = Append(toCaller, ErrorEvent(SCRIPT_LOAD_FAILED))
    /\ UNCHANGED <<accVars, sourceVars, currentParser, workerIsCancelled,
                   toWorker, callerVars>>
    /\ UNCHANGED nodeVars
    /\ UNCHANGED componentVars

(***************************************************************************)
(* CsvParserWeb.parseCsv                                                   *)
(***************************************************************************)
settle_LastCallWins(p, state, value) == [state |-> state, value |-> value]

\* resolve / reject settle the promise once; later calls change nothing
settle(p, state, value) ==
    IF p.state = "pending" THEN [state |-> state, value |-> value] ELSE p

\* the callers of resolve or reject on a settled promise, after a call by who
calledOnSettled(p, late, who) ==
    IF p.state # "pending" THEN late \cup {who} ELSE late

terminateWorker_Skipped(w, terminated) == terminated

\* if (worker) { worker.terminate(); worker = null; }: whether terminate()
\* has been called by now
terminateWorker(w, terminated) == terminated \/ w

\* clearCancelTimeout()
clearCancelTimeout(timeout) == IF timeout # "null" THEN "null" ELSE timeout

\* the worker is ingesting rows: the header was accepted and the tokenizer
\* has neither ended nor failed
Ingesting ==
    /\ workerPc = "piping"
    /\ parser.status = "open"
    /\ parser.columns # << >>

\* worker.onmessage, message.type === 'success'
CallerOnSuccess ==
    /\ toCaller # << >> /\ Head(toCaller).type = "success"
    /\ toCaller' = Tail(toCaller)
    /\ workerTerminated' = terminateWorker(worker, workerTerminated)
    /\ worker' = FALSE
    /\ promiseReject' = FALSE
    /\ promise' = settle(promise, "fulfilled",
                         deserializeResults(Head(toCaller).results))
    /\ lateSettles' = calledOnSettled(promise, lateSettles, "message")
    /\ UNCHANGED <<accVars, sourceVars, workerPc, currentParser,
                   workerIsCancelled, toWorker, isCancelled, cancelTimeout,
                   cancelCalls, cancelledMidStream>>
    /\ UNCHANGED nodeVars
    /\ UNCHANGED componentVars

\* worker.onmessage, message.type === 'error'
CallerOnError ==
    /\ toCaller # << >> /\ Head(toCaller).type = "error"
    /\ toCaller' = Tail(toCaller)
    /\ workerTerminated' = terminateWorker(worker, workerTerminated)
    /\ worker' = FALSE
    /\ promiseReject' = FALSE
    /\ promise' = settle(promise, "rejected", Error(Head(toCaller).error))
    /\ lateSettles' = calledOnSettled(promise, lateSettles, "message")
    /\ UNCHANGED <<accVars, sourceVars, workerPc, currentParser,
                   workerIsCancelled, toWorker, isCancelled, cancelTimeout,
                   cancelCalls, cancelledMidStream>>
    /\ UNCHANGED nodeVars
    /\ UNCHANGED componentVars

\* worker.onmessage, message.type === 'cancelled'
CallerOnCancelled ==
    /\ toCaller # << >> /\ Head(toCaller).type = "cancelled"
    /\ toCaller' = Tail(toCaller)
    /\ cancelTimeout' = clearCancelTimeout(cancelTimeout)
    /\ workerTerminated' = terminateWorker(worker, workerTerminated)
    /\ worker' = FALSE
    /\ promiseReject' = FALSE
    /\ promise' = settle(promise, "rejected", CancellationError)
    /\ lateSettles' = calledOnSettled(promise, lateSettles, "message")
    /\ UNCHANGED <<accVars, sourceVars, workerPc, currentParser,
                   workerIsCancelled, toWorker, isCancelled, cancelCalls,
                   cancelledMidStream>>
    /\ UNCHANGED nodeVars
    /\ UNCHANGED componentVars

\* worker.onerror
CallerOnErrorEvent ==
    /\ toCaller # << >> /\ Head(toCaller).type = "errorevent"
    /\ toCaller' = Tail(toCaller)
    /\ cancelTimeout' = clearCancelTimeout(cancelTimeout)
    /\ workerTerminated' = terminateWorker(worker, workerTerminated)
    /\ worker' = FALSE
    /\ promiseReject' = FALSE
    /\ promise' = settle(promise, "rejected",
                         Error(<<"Worker error: ", Head(toCaller).error>>))
    /\ lateSettles' = calledOnSettled(promise, lateSettles, "errorevent")
    /\ UNCHANGED <<accVars, sourceVars, workerPc, currentParser,
                   workerIsCancelled, toWorker, isCancelled, cancelCalls,
                   cancelledMidStream>>
    /\ UNCHANGED nodeVars
    /\ UNCHANGED componentVars

\* an event of a terminated worker that is still queued may never be
\* dispatched
EventDiscarded ==
    /\ workerTerminated
    /\ toCaller # << >>
    /\ toCaller' = Tail(toCaller)
    /\ UNCHANGED <<accVars, sourceVars, workerPc, currentParser,
                   workerIsCancelled, toWorker, callerVars>>
    /\ UNCHANGED nodeVars
    /\ UNCHANGED componentVars

setTimeout_NotArmed == "null"

\* cancelTimeout = setTimeout(callback, 150): the timer is armed
setTimeout == "armed"

cancelReturnsEarly_IgnoresFlag(cancelled, w) == ~w

cancelReturnsEarly_IgnoresWorker(cancelled, w) == cancelled

\* if (isCancelled || !worker) return
cancelReturnsEarly(cancelled, w) == cancelled \/ ~w

\* cancel()
Cancel ==
    /\ cancelCalls < MaxCancelCalls
    /\ cancelCalls' = cancelCalls + 1
    /\ IF cancelReturnsEarly(isCancelled, worker)
       THEN UNCHANGED <<isCancelled, toWorker, cancelTimeout, cancelledMidStream>>
       ELSE /\ isCancelled' = TRUE
            /\ toWorker' = Append(toWorker, CancelMessage)
            /\ cancelTimeout' = setTimeout
            /\ cancelledMidStream' = Ingesting
    /\ UNCHANGED <<accVars, sourceVars, workerPc, currentParser,
                   workerIsCancelled, toCaller, worker, workerTerminated,
                   promiseReject, promise, lateSettles>>
    /\ UNCHANGED nodeVars
    /\ UNCHANGED componentVars

\* the callback of the grace timer armed by cancel()
GraceTimerExpires ==
    /\ cancelTimeout = "armed"
    /\ cancelTimeout' = "fired"
    /\ workerTerminated' = terminateWorker(worker, workerTerminated)
    /\ worker' = FALSE
    /\ promise' = IF promiseReject
                  THEN settle(promise, "rejected", CancellationError)
                  ELSE promise
    /\ promiseReject' = FALSE
    /\ lateSettles' = IF promiseReject
                      THEN calledOnSettled(promise, lateSettles, "timer")
                      ELSE lateSettles
    /\ UNCHANGED <<accVars, sourceVars, workerVars, isCancelled, cancelCalls,
                   cancelledMidStream>>
    /\ UNCHANGED nodeVars
    /\ UNCHANGED componentVars

\* the FileProcessing that processFile stores once parseCsv has returned
Processing == [state |-> "processing", results |-> << >>, error |-> << >>]

\* { ...fileProcessing }: the properties of the object, none for null
Spread(fp) ==
    IF fp = << >> THEN [state |-> "", results |-> << >>, error |-> << >>]
    ELSE fp[1]

\* processFile(file): parseCsv(file) has made the worker and posted the
\* file to it, and processFile waits for the results
parseCsvCalled(files) ==
    /\ accumulator = NewAccumulator
    /\ results = << >>
    /\ nAdds = 0
    /\ seen = EmptyBag
    /\ named = << >>
    /\ file \in files
    /\ pos = 0
    /\ parser = NewParser
    /\ emitted = << >>
    /\ workerPc = "idle"
    /\ currentParser = FALSE
    /\ workerIsCancelled = FALSE
    /\ toWorker = <<FileMessage>>
    /\ toCaller = << >>
    /\ worker = TRUE
    /\ workerTerminated = FALSE
    /\ isCancelled = FALSE
    /\ promiseReject = TRUE
    /\ cancelTimeout = "null"
    /\ promise = [state |-> "pending", value |-> << >>]
    /\ cancelCalls = 0
    /\ cancelledMidStream = FALSE
    /\ lateSettles = {}
    /\ headersValidated = FALSE
    /\ pipelinePc = "none"
    /\ streamDestroyed = FALSE
    /\ fileProcessing = <<Processing>>
    /\ processFilePc = "awaiting"
    /\ shownFile = 1
    /\ secondCall = NoSecondCall

Init == parseCsvCalled(Files)

instanceofCancellationError_Never(error) == FALSE

\* error instanceof CancellationError
instanceofCancellationError(error) == error.name = "CancellationError"

\* fileProcessing.file once processFile has resumed with the promise p:
\* that of the spread object, or none after fileProcessing = null
fileAfterAwait(shown, fp, p) ==
    IF p.state = "rejected" /\ instanceofCancellationError(p.value) THEN 0
    ELSE IF fp = << >> THEN 0
    ELSE shown

\* processFile resumes after `await operation.results`
ProcessFileResumes ==
    /\ processFilePc = "awaiting"
    /\ promise.state # "pending"
    /\ processFilePc' = "done"
    /\ shownFile' = fileAfterAwait(shownFile, fileProcessing, promise)
    /\ UNCHANGED secondCall
    /\ fileProcessing' =
         IF promise.state = "fulfilled"
         THEN <<[Spread(fileProcessing) EXCEPT !.state = "completed",
                                               !.results = <<promise.value>>]>>
         ELSE IF instanceofCancellationError(promise.value)
         THEN << >>
         ELSE <<[Spread(fileProcessing) EXCEPT !.state = "error",
                                               !.error = <<promise.value.message>>]>>
    /\ UNCHANGED <<accVars, sourceVars, workerVars, callerVars, nodeVars>>

Next ==
    \/ WorkerOnFile
    \/ PipeWrite
    \/ PipeClose
    \/ OnReadable
    \/ OnParserEnd
    \/ OnParserError
    \/ WorkerOnCancel
    \/ WorkerFailsToLoad
    \/ CallerOnSuccess
    \/ CallerOnError
    \/ CallerOnCancelled
    \/ CallerOnErrorEvent
    \/ EventDiscarded
    \/ Cancel
    \/ GraceTimerExpires
    \/ ProcessFileResumes

Spec == Init /\ [][Next]_vars

(***************************************************************************)
(* processFile called for a second file                                    *)
(***************************************************************************)
\* what the operation of the second file may settle with: results, or a
\* tokenizer error; nobody cancels it
SecondOutcomes ==
    {[state |-> "fulfilled",
      value |-> [monitoringLocations |-> << <<"Z", "Site Z">> >>,
                 monitoringLocationResults |->
                     << <<"Z", [average |-> Num(5, 1)]>>,
                        <<"-ALL-", [average |-> Num(5, 1)]>> >>]],
     [state |-> "rejected", value |-> Error(QUOTE_NOT_CLOSED)]}

\* processFile(second file) while the first operation is pending: cancel()
\* of the first operation, parseCsv, and fileProcessing is replaced
ProcessSecondFile ==
    /\ secondCall.pc = "none"
    /\ processFilePc = "awaiting"
    /\ promise.state = "pending"
    /\ cancelCalls' = cancelCalls + 1
    /\ IF fileProcessing = << >> \/ cancelReturnsEarly(isCancelled, worker)
       THEN UNCHANGED <<isCancelled, toWorker, cancelTimeout, cancelledMidStream>>
       ELSE /\ isCancelled' = TRUE
            /\ toWorker' = Append(toWorker, CancelMessage)
            /\ cancelTimeout' = setTimeout
            /\ cancelledMidStream' = Ingesting
    /\ fileProcessing' = <<Processing>>
    /\ shownFile' = 2
    /\ secondCall' = [secondCall EXCEPT !.pc = "awaiting"]
    /\ UNCHANGED <<accVars, sourceVars, workerPc, currentParser,
                   workerIsCancelled, toCaller, worker, workerTerminated,
                   promiseReject, promise, lateSettles, nodeVars,
                   processFilePc>>

\* the results promise of the second operation settles
SecondOperationSettles ==
    /\ secondCall.pc = "awaiting"
    /\ secondCall.promise.state = "pending"
    /\ \E outcome \in SecondOutcomes :
           secondCall' = [secondCall EXCEPT !.promise = outcome]
    /\ UNCHANGED <<accVars, sourceVars, workerVars, callerVars, nodeVars,
                   fileProcessing, processFilePc, shownFile>>

\* processFile(second file) resumes after `await operation.results`
SecondProcessFileResumes ==
    /\ secondCall.pc = "awaiting"
    /\ secondCall.promise.state # "pending"
    /\ secondCall' = [secondCall EXCEPT !.pc = "done"]
    /\ shownFile' = fileAfterAwait(shownFile, fileProcessing, secondCall.promise)
    /\ fileProcessing' =
         IF secondCall.promise.state = "fulfilled"
         THEN <<[Spread(fileProcessing) EXCEPT !.state = "completed",
                                               !.results = <<secondCall.promise.value>>]>>
         ELSE IF instanceofCancellationError(secondCall.promise.value)
         THEN << >>
         ELSE <<[Spread(fileProcessing) EXCEPT !.state = "error",
                                               !.error = <<secondCall.promise.value.message>>]>>
    /\ UNCHANGED <<accVars, sourceVars, workerVars, callerVars, nodeVars,
                   processFilePc>>

NextTwoFiles ==
    \/ WorkerOnFile
    \/ PipeWrite
    \/ PipeClose
    \/ OnReadable
    \/ OnParserEnd
    \/ OnParserError
    \/ WorkerOnCancel
    \/ CallerOnSuccess
    \/ CallerOnError
    \/ CallerOnCancelled
    \/ EventDiscarded
    \/ GraceTimerExpires
    \/ ProcessFileResumes
    \/ ProcessSecondFile
    \/ SecondOperationSettles
    \/ SecondProcessFileResumes

SpecTwoFiles == Init /\ [][NextTwoFiles]_vars

\* the event loop runs the callback of an armed timer; nothing is assumed
\* about the worker, which may never handle or answer a message
SpecLive == Init /\ [][Next]_vars /\ WF_vars(GraceTimerExpires)

\* a file of HeaderFiles is parsed to its end: nobody cancels and the
\* worker script loads
InitHeaders == parseCsvCalled(HeaderFiles)

NextHeaders ==
    \/ WorkerOnFile
    \/ PipeWrite
    \/ PipeClose
    \/ OnReadable
    \/ OnParserEnd
    \/ OnParserError
    \/ CallerOnSuccess
    \/ CallerOnError
    \/ ProcessFileResumes

SpecHeaders == InitHeaders /\ [][NextHeaders]_vars

(***************************************************************************)
(* csvParser.parseCSV: the file is piped into a parser of its own          *)
(***************************************************************************)
HEADER_LINE_MISSING == <<"CSV file must have a header line">>

\* what pipeline() rejects with when the source was destroyed under it
PREMATURE_CLOSE == <<"Premature close">>

\* the columns option of parseCSV: headersValidated is set once
\* validateHeaders has returned
parseCSVColumns(headers) ==
    LET error == validateHeaders(headers)
    IN  IF error.thrown
        THEN [error |-> error, columns |-> << >>, headersValidated |-> FALSE]
        ELSE [error |-> NoError, columns |-> normalizeHeaders(headers),
              headersValidated |-> TRUE]

\* parseCSV(filePath) has made its parser and started the pipeline
InitParseCSV ==
    /\ accumulator = NewAccumulator
    /\ results = << >>
    /\ nAdds = 0
    /\ seen = EmptyBag
    /\ named = << >>
    /\ file \in Files
    /\ pos = 0
    /\ parser = NewParser
    /\ emitted = << >>
    /\ workerPc = "idle"
    /\ currentParser = FALSE
    /\ workerIsCancelled = FALSE
    /\ toWorker = << >>
    /\ toCaller = << >>
    /\ worker = FALSE
    /\ workerTerminated = FALSE
    /\ isCancelled = FALSE
    /\ promiseReject = FALSE
    /\ cancelTimeout = "null"
    /\ promise = [state |-> "pending", value |-> << >>]
    /\ cancelCalls = 0
    /\ cancelledMidStream = FALSE
    /\ lateSettles = {}
    /\ headersValidated = FALSE
    /\ pipelinePc = "piping"
    /\ streamDestroyed = FALSE
    /\ fileProcessing = << >>
    /\ processFilePc = "none"
    /\ shownFile = 0
    /\ secondCall = NoSecondCall

\* pipeline(stream, parser) writes the next line
PipelineWrite ==
    /\ pipelinePc = "piping"
    /\ parser.status = "open"
    /\ pos < Len(file.lines)
    /\ pos' = pos + 1
    /\ IF parser.columns = << >>
       THEN LET line   == file.lines[pos + 1]
                called == parseCSVColumns([i \in 1..Len(line) |-> Trim(line[i])])
            IN  /\ headersValidated' = called.headersValidated
                /\ parser' = IF called.error.thrown
                             THEN [parser EXCEPT !.status = "errored",
                                                 !.error = called.error]
                             ELSE [parser EXCEPT !.columns = <<called.columns>>]
       ELSE /\ parser' = parserWrite(parser, file.lines[pos + 1])
            /\ UNCHANGED headersValidated
    /\ emitted' = IF Len(parser'.readable) > Len(parser.readable)
                  THEN Append(emitted, parser'.readable[Len(parser'.readable)])
                  ELSE emitted
    /\ UNCHANGED <<accVars, file, workerVars, callerVars, pipelinePc>>
    /\ UNCHANGED componentVars
    /\ UNCHANGED streamDestroyed

\* pipeline(stream, parser) ends the parser when the file is read
PipelineEnd ==
    /\ pipelinePc = "piping"
    /\ parser.status = "open"
    /\ pos = Len(file.lines)
    /\ parser' = parserEnd(parser, file.malformed)
    /\ pipelinePc' = "closed"
    /\ UNCHANGED <<accVars, file, pos, emitted, workerVars, callerVars,
                   headersValidated>>
    /\ UNCHANGED componentVars
    /\ UNCHANGED streamDestroyed

\* parser.on('readable') of parseCSV
PipelineReadable ==
    /\ pipelinePc \in {"piping", "closed"}
    /\ parser.status \in {"open", "ending"}
    /\ parser.readable # << >>
    /\ accumulator' = readAll(accumulator, parser.readable, Len(parser.readable))
    /\ nAdds' = nAdds + Len(parser.readable)
    /\ parser' = [parser EXCEPT !.readable = << >>]
    /\ UNCHANGED <<results, seen, named, file, pos, emitted, workerVars, callerVars,
                   nodeVars>>
    /\ UNCHANGED componentVars

\* await pipeline(...) returns: parseCSV returns the results
ParseCSVReturns ==
    /\ pipelinePc = "closed"
    /\ endIsDue(parser)
    /\ parser' = [parser EXCEPT !.status = "ended"]
    /\ pipelinePc' = "returned"
    /\ promise' = settle(promise, "fulfilled", ParseResults(accumulator))
    /\ UNCHANGED <<accVars, file, pos, emitted, workerVars, worker,
                   workerTerminated, isCancelled, promiseReject, cancelTimeout,
                   cancelCalls, cancelledMidStream, lateSettles,
                   headersValidated>>
    /\ UNCHANGED componentVars
    /\ UNCHANGED streamDestroyed

\* the parser fails, await pipeline(...) throws and the catch block runs;
\* what it rethrows is the error pipeline() rejected with
ParseCSVCatches ==
    /\ pipelinePc \in {"piping", "closed"}
    /\ parser.status = "errored"
    /\ parser' = [parser EXCEPT !.status = "failed"]
    /\ pipelinePc' = "thrown"
    /\ \E error \in {parser.error.message, PREMATURE_CLOSE} :
         promise' = IF ~headersValidated
                    THEN settle(promise, "rejected", Error(HEADER_LINE_MISSING))
                    ELSE settle(promise, "rejected", Error(error))
    /\ UNCHANGED <<accVars, file, pos, emitted, workerVars, worker,
                   workerTerminated, isCancelled, promiseReject, cancelTimeout,
                   cancelCalls, cancelledMidStream, lateSettles,
                   headersValidated>>
    /\ UNCHANGED componentVars
    /\ UNCHANGED streamDestroyed

\* the parser fails; the error listener of parseCSV destroys the stream and
\* throws inside the emitter: where nothing handles uncaught exceptions the
\* process ends there and the promise is never settled
ParseCSVUncaught ==
    /\ pipelinePc \in {"piping", "closed"}
    /\ parser.status = "errored"
    /\ parser' = [parser EXCEPT !.status = "failed"]
    /\ pipelinePc' = "uncaught"
    /\ UNCHANGED <<accVars, file, pos, emitted, workerVars, callerVars,
                   headersValidated>>
    /\ UNCHANGED componentVars
    /\ UNCHANGED streamDestroyed

NextParseCSV ==
    \/ PipelineWrite
    \/ PipelineEnd
    \/ PipelineReadable
    \/ ParseCSVReturns
    \/ ParseCSVCatches
    \/ ParseCSVUncaught

SpecParseCSV == InitParseCSV /\ [][NextParseCSV]_vars

(***************************************************************************)
(* CsvParserNode.parseCsv                                                  *)
(***************************************************************************)
\* getParser(parse, errorCallback, endCallback): the callbacks of parseCsv,
\* in the order the call passes them
parseCsvArguments == <<"errorCallback", "endCallback">>

\* getParser(parse, endCallback, errorCallback, accumulator): the
\* parameters the two arguments are bound to
getParserParameters == <<"endCallback", "errorCallback">>

\* the callback of parseCsv that getParser knows under the name parameter
callbackBoundTo(parameter) ==
    parseCsvArguments[CHOOSE i \in 1..Len(getParserParameters) :
                          getParserParameters[i] = parameter]

\* errorCallback: stream.destroy(); reject(error)
\* endCallback: resolve(results)
callbackSettles(callback, p, value) ==
    IF callback = "errorCallback" THEN settle(p, "rejected", value)
    ELSE settle(p, "fulfilled", value)

callbackDestroys(callback, destroyed) ==
    destroyed \/ callback = "errorCallback"

\* parseCsv(filePath) has opened the stream, made the parser and started
\* the pipeline
InitNode ==
    /\ accumulator = NewAccumulator
    /\ results = << >>
    /\ nAdds = 0
    /\ seen = EmptyBag
    /\ named = << >>
    /\ file \in Files
    /\ pos = 0
    /\ parser = NewParser
    /\ emitted = << >>
    /\ workerPc = "idle"
    /\ currentParser = FALSE
    /\ workerIsCancelled = FALSE
    /\ toWorker = << >>
    /\ toCaller = << >>
    /\ worker = FALSE
    /\ workerTerminated = FALSE
    /\ isCancelled = FALSE
    /\ promiseReject = FALSE
    /\ cancelTimeout = "null"
    /\ promise = [state |-> "pending", value |-> << >>]
    /\ cancelCalls = 0
    /\ cancelledMidStream = FALSE
    /\ lateSettles = {}
    /\ headersValidated = FALSE
    /\ pipelinePc = "piping"
    /\ streamDestroyed = FALSE
    /\ fileProcessing = << >>
    /\ processFilePc = "none"
    /\ shownFile = 0
    /\ secondCall = NoSecondCall

\* pipeline(stream, parser) writes the next line
NodeWrite ==
    /\ pipelinePc = "piping"
    /\ parser.status = "open"
    /\ pos < Len(file.lines)
    /\ parser' = parserWrite(parser, file.lines[pos + 1])
    /\ pos' = pos + 1
    /\ emitted' = IF Len(parser'.readable) > Len(parser.readable)
                  THEN Append(emitted, parser'.readable[Len(parser'.readable)])
                  ELSE emitted
    /\ UNCHANGED <<accVars, file, workerVars, callerVars, nodeVars>>
    /\ UNCHANGED componentVars

\* pipeline(stream, parser) ends the parser when the file is read
NodeEnd ==
    /\ pipelinePc = "piping"
    /\ parser.status = "open"
    /\ pos = Len(file.lines)
    /\ parser' = parserEnd(parser, file.malformed)
    /\ pipelinePc' = "closed"
    /\ UNCHANGED <<accVars, file, pos, emitted, workerVars, callerVars,
                   headersValidated, streamDestroyed>>
    /\ UNCHANGED componentVars

\* parser.on('readable'): every record pushed so far is read and added
NodeReadable ==
    /\ pipelinePc \in {"piping", "closed"}
    /\ parser.status \in {"open", "ending"}
    /\ parser.readable # << >>
    /\ accumulator' = readAll(accumulator, parser.readable, Len(parser.readable))
    /\ nAdds' = nAdds + Len(parser.readable)
    /\ parser' = [parser EXCEPT !.readable = << >>]
    /\ UNCHANGED <<results, seen, named, file, pos, emitted, workerVars,
                   callerVars, nodeVars>>
    /\ UNCHANGED componentVars

\* parser.on('end'): getParser calls its endCallback with the results
NodeOnParserEnd ==
    /\ pipelinePc = "closed"
    /\ endIsDue(parser)
    /\ parser' = [parser EXCEPT !.status = "ended"]
    /\ promise' = callbackSettles(callbackBoundTo("endCallback"), promise,
                                  ParseResults(accumulator))
    /\ streamDestroyed' = callbackDestroys(callbackBoundTo("endCallback"),
                                           streamDestroyed)
    /\ UNCHANGED <<accVars, file, pos, emitted, workerVars, worker,
                   workerTerminated, isCancelled, promiseReject, cancelTimeout,
                   cancelCalls, cancelledMidStream, lateSettles,
                   headersValidated,
                   pipelinePc>>
    /\ UNCHANGED componentVars

\* parser.on('error', errorCallback): getParser registers its
\* errorCallback, which the parser calls with its error
NodeOnParserError ==
    /\ pipelinePc \in {"piping", "closed"}
    /\ parser.status = "errored"
    /\ parser' = [parser EXCEPT !.status = "failed"]
    /\ promise' = callbackSettles(callbackBoundTo("errorCallback"), promise,
                                  Error(parser.error.message))
    /\ streamDestroyed' = callbackDestroys(callbackBoundTo("errorCallback"),
                                           streamDestroyed)
    /\ UNCHANGED <<accVars, file, pos, emitted, workerVars, worker,
                   workerTerminated, isCancelled, promiseReject, cancelTimeout,
                   cancelCalls, cancelledMidStream, lateSettles,
                   headersValidated,
                   pipelinePc>>
    /\ UNCHANGED componentVars

\* await pipeline(stream, parser) returns when the parser has ended; when
\* the parser has failed, pipeline destroys the stream and rejects, and
\* the rejection leaves the async executor unhandled
NodePipelineSettles ==
    /\ pipelinePc \in {"piping", "closed"}
    /\ parser.status \in {"ended", "failed"}
    /\ pipelinePc' = IF parser.status = "ended" THEN "returned" ELSE "unhandled"
    /\ streamDestroyed' = (streamDestroyed \/ parser.status = "failed")
    /\ UNCHANGED <<accVars, sourceVars, workerVars, callerVars,
                   headersValidated>>
    /\ UNCHANGED componentVars

NextNode ==
    \/ NodeWrite
    \/ NodeEnd
    \/ NodeReadable
    \/ NodeOnParserEnd
    \/ NodeOnParserError
    \/ NodePipelineSettles

SpecNode == InitNode /\ [][NextNode]_vars

(***************************************************************************)
(* Claims about RecordDataAccumulator                                      *)
(***************************************************************************)
HistogramOf(acc, locationId) ==
    IF MapHas(acc.locationData, locationId)
    THEN MapGet(acc.locationData, locationId)
    ELSE << >>

RECURSIVE CountSum(_, _)
CountSum(histogram, n) ==
    IF n = 0 THEN 0 ELSE CountSum(histogram, n - 1) + histogram[n][2]

CountsOf(acc, locationId) ==
    CountSum(HistogramOf(acc, locationId), Len(HistogramOf(acc, locationId)))

ParsedValues == {parseFloat(s) : s \in ResultValues}

\* C1: a record whose CharacteristicName is "Temperature, water" ignoring
\* case and whose ResultValue parses to a number raises the sum of the counts
\* of its location's histogram by exactly 1, leaves every other location's
\* histogram as it was, and its location ID is in the registry afterwards.
C1_AcceptedRecordCountsOnce ==
    [][\A locationId \in LocationIDs : \A value \in ParsedValues :
          seen' = seen (+) SetToBag({<<locationId, value>>})
          => /\ CountsOf(accumulator', locationId)
                    = CountsOf(accumulator, locationId) + 1
             /\ \A other \in LocationIDs \ {locationId} :
                    /\ MapHas(accumulator'.locationData, other)
                           <=> MapHas(accumulator.locationData, other)
                    /\ HistogramOf(accumulator', other)
                           = HistogramOf(accumulator, other)
             /\ MapHas(accumulator'.locations, locationId)]_accVars

\* an accepted record has been added to a location that already had one,
\* while another location has a histogram too
C1_Witness ==
    \E locationId \in LocationIDs :
        /\ CountsOf(accumulator, locationId) >= 2
        /\ Len(accumulator.locationData) >= 2
        /\ BagCardinality(seen) = 3

\* C2: a record whose CharacteristicName does not match, or whose
\* ResultValue does not parse to a number, leaves the registry and every
\* histogram exactly as they were.
C2_RejectedRecordChangesNothing ==
    [][(nAdds' = nAdds + 1 /\ seen' = seen)
          => accumulator' = accumulator]_accVars

\* a rejected record was added after an accepted one
C2_Witness ==
    /\ BagCardinality(seen) >= 1
    /\ nAdds > BagCardinality(seen)
    /\ Len(accumulator.locationData) >= 1

\* the millidegree sum and the number of the accepted records, from the
\* history of accepted records
RECURSIVE SeenMillis(_, _)
SeenMillis(bag, elements) ==
    IF elements = {} THEN Num(0, 1)
    ELSE LET x == CHOOSE e \in elements : TRUE
         IN  Plus(Times(MathFloor(Times(x[2], Num(1000, 1))), Num(bag[x], 1)),
                  SeenMillis(bag, elements \ {x}))

SeenAt(locationId) ==
    {x \in BagToSet(seen) : x[1] = locationId}

\* the plain mean of the averages of the entries of a result map other
\* than -ALL-
RECURSIVE AverageSum(_, _)
AverageSum(map, n) ==
    IF n = 0 THEN Num(0, 1)
    ELSE IF map[n][1] = "-ALL-" THEN AverageSum(map, n - 1)
    ELSE Plus(AverageSum(map, n - 1), map[n][2].average)

PlainMean(map) ==
    DividedBy(AverageSum(map, Len(map)),
              Cardinality(MapKeys(map) \ {"-ALL-"}))

\* C3: with at least one accepted record, the -ALL- average is the sum of
\* the millidegree sums of all locations / 1000 / the number of accepted
\* records (the count-weighted average).
C3_AllIsWeightedAverage ==
    (results # << >> /\ BagCardinality(seen) > 0)
    => /\ MapHas(results[1], "-ALL-")
       /\ MapGet(results[1], "-ALL-").average
              = DividedBy(DividedBy(SeenMillis(seen, BagToSet(seen)), 1000),
                          BagCardinality(seen))

\* results over two locations whose weighted average is not the plain mean
\* of the two averages
C3_Witness ==
    /\ results # << >>
    /\ MapKeys(results[1]) = {"A", "B", "-ALL-"}
    /\ MapGet(results[1], "-ALL-").average # PlainMean(results[1])

\* the sum of key * count over the first n entries of a histogram
RECURSIVE KeyCountSum(_, _)
KeyCountSum(histogram, n) ==
    IF n = 0 THEN Num(0, 1)
    ELSE Plus(KeyCountSum(histogram, n - 1),
              Times(histogram[n][1], Num(histogram[n][2], 1)))

\* C4: for every location with at least one accepted record, the average
\* returned for that location is the sum over its own histogram of
\* key * count, divided by 1000 and by the sum of its counts.
C4_LocationAverageFromOwnHistogram ==
    results # << >>
    => \A locationId \in LocationIDs :
          SeenAt(locationId) # {}
          => /\ MapHas(results[1], locationId)
             /\ MapGet(results[1], locationId).average
                    = DividedBy(
                        DividedBy(KeyCountSum(HistogramOf(accumulator, locationId),
                                              Len(HistogramOf(accumulator, locationId))),
                                  1000),
                        CountsOf(accumulator, locationId))

(***************************************************************************)
(* Claims about header validation and the end of the source                *)
(***************************************************************************)
\* the header line as the columns option receives it
HeaderFields == [i \in 1..Len(file.lines[1]) |-> Trim(file.lines[1][i])]

HeaderLacksColumn ==
    /\ file.lines # << >>
    /\ validateHeaders(HeaderFields).thrown

\* C5: when the header row lacks one of the four required columns, the
\* ingestion fails with the missing-column error of that column, not with
\* the missing-header error, and no row has been added to the accumulator
C5_MissingColumnIsReported ==
    (HeaderLacksColumn /\ promise.state # "pending") =>
        /\ promise.state = "rejected"
        /\ promise.value = Error(validateHeaders(HeaderFields).message)
        /\ nAdds = 0

EmptyFile == [lines |-> << >>, malformed |-> FALSE]

\* C6: an ingestion of an entirely empty source never completes
\* successfully: it fails with "CSV file must have a header line"
C6_EmptySourceFailsWithHeaderError ==
    (file = EmptyFile /\ ~isCancelled /\ workerPc # "crashed") =>
        /\ promise.state # "fulfilled"
        /\ promise.state = "rejected" =>
               promise.value = Error(HEADER_LINE_MISSING)

(***************************************************************************)
(* Claims about cancellation and completion of a web ingestion             *)
(***************************************************************************)
\* C7: when cancel was issued while the worker was ingesting rows, the
\* results promise is never resolved and rejects with CancellationError only
C7_MidStreamCancelRejects ==
    cancelledMidStream =>
        /\ promise.state # "fulfilled"
        /\ promise.state = "rejected" => promise.value = CancellationError

\* C8: once cancel() has taken effect on the caller side, a success message
\* handled afterwards does not resolve the results promise
C8_CancelBeatsLaterSuccess ==
    isCancelled => promise.state # "fulfilled"

\* the results of adding every record the tokenizer has pushed
ResultsOfEmitted ==
    ParseResults(readAll(NewAccumulator, emitted, Len(emitted)))

\* C9: a success is reported only when the whole file went through the
\* tokenizer and every record it pushed was added, and the results reported
\* (in the message, and in the promise) are those of exactly these records
C9_SuccessAfterEveryRow ==
    /\ \A i \in 1..Len(toCaller) :
         toCaller[i].type = "success" =>
            /\ pos = Len(file.lines)
            /\ Len(emitted) + 1 >= Len(file.lines)
            /\ nAdds = Len(emitted)
            /\ toCaller[i].results = serializeResults(ResultsOfEmitted)
    /\ promise.state = "fulfilled" =>
            /\ nAdds = Len(emitted)
            /\ promise.value =
                   deserializeResults(serializeResults(ResultsOfEmitted))

C9_Witness ==
    /\ promise.state = "fulfilled"
    /\ Len(emitted) >= 2
    /\ MapHas(promise.value.monitoringLocationResults, "-ALL-")
    /\ MapHas(promise.value.monitoringLocationResults, "A")
    /\ MapHas(promise.value.monitoringLocationResults, "B")

\* C10: whenever the results promise is settled, terminate() has been called
\* on the worker and the worker reference is null
C10_SettledMeansWorkerReleased ==
    promise.state # "pending" => (~worker /\ workerTerminated)

C10_Witness ==
    /\ promise.state = "rejected"
    /\ promise.value = CancellationError
    /\ cancelTimeout = "fired"
    /\ workerTerminated
    /\ ~worker

\* C11: once cancel() has taken effect on a pending operation, the results
\* promise is eventually settled and the worker eventually terminated,
\* whatever the worker does; when the grace timer expires on a pending
\* promise, it is rejected with CancellationError
C11_CancelEventuallySettles ==
    /\ isCancelled ~> (promise.state # "pending" /\ workerTerminated /\ ~worker)
    /\ [][(cancelTimeout = "armed" /\ cancelTimeout' = "fired"
            /\ promise.state = "pending") =>
               /\ promise' = [state |-> "rejected", value |-> CancellationError]
               /\ workerTerminated' /\ ~worker']_vars

\* the worker never handled the cancel message; the grace timer rejected
C11_Witness ==
    /\ isCancelled
    /\ \E i \in 1..Len(toWorker) : toWorker[i].type = "cancel"
    /\ toCaller = << >>
    /\ cancelTimeout = "fired"
    /\ workerTerminated
    /\ promise = [state |-> "rejected", value |-> CancellationError]

\* what a call of cancel() may change besides the count of the calls
CancelEffects ==
    <<accVars, sourceVars, workerVars, worker, workerTerminated, isCancelled,
      promiseReject, cancelTimeout, promise, cancelledMidStream, nodeVars,
      componentVars>>

\* the cancel messages posted so far: those still queued and the one the
\* worker has handled
CancelMessagesPosted ==
    Cardinality({i \in 1..Len(toWorker) : toWorker[i].type = "cancel"})
    + (IF workerIsCancelled THEN 1 ELSE 0)

\* C12: a call of cancel() after one that took effect changes nothing; a
\* cancel message is posted and the grace timer armed only by the call that
\* sets isCancelled, so at most one message is ever posted
C12_CancelIsIdempotent ==
    /\ [][(cancelCalls' # cancelCalls /\ isCancelled) =>
              UNCHANGED CancelEffects]_vars
    /\ [][(Len(toWorker') > Len(toWorker) \/ cancelTimeout' = "armed") =>
              (isCancelled' /\ (cancelTimeout = "armed" \/ ~isCancelled))]_vars
    /\ [](CancelMessagesPosted <= 1)

\* cancel() was called twice while the worker was still there
C12_Witness ==
    /\ cancelCalls >= 2
    /\ isCancelled
    /\ worker
    /\ cancelTimeout = "armed"
    /\ CancelMessagesPosted = 1

\* C13: a call of cancel() on an operation whose promise is settled posts
\* no message, arms no timer and leaves the promise as it is
C13_CancelAfterSettleIsNoOp ==
    [][(cancelCalls' # cancelCalls /\ promise.state # "pending") =>
           UNCHANGED CancelEffects]_vars

\* cancel() was called only after the operation had completed, or failed
C13_Witness ==
    /\ cancelCalls >= 1
    /\ ~isCancelled
    /\ promise.state \in {"fulfilled", "rejected"}
    /\ cancelTimeout = "null"
    /\ \A i \in 1..Len(toWorker) : toWorker[i].type # "cancel"

\* the step that rejects the promise is caused by cancellation: the handler
\* of the cancelled message, or the callback of the grace timer
RejectedByCancellation ==
    \/ cancelTimeout = "armed" /\ cancelTimeout' = "fired"
    \/ /\ toCaller # << >>
       /\ Head(toCaller).type = "cancelled"
       /\ toCaller' = Tail(toCaller)

\* C14: a rejection caused by cancellation is a CancellationError and every
\* other rejection a plain Error; when processFile finds the promise
\* rejected with CancellationError the component is back to no file, and it
\* is in the error state only with the message of a plain Error
C14_CancellationIsNotAnError ==
    /\ [][(promise.state = "pending" /\ promise'.state = "rejected") =>
              IF RejectedByCancellation
              THEN promise'.value = CancellationError
              ELSE promise'.value.name = "Error"]_vars
    /\ [][(processFilePc = "awaiting" /\ processFilePc' = "done"
           /\ promise.state = "rejected"
           /\ promise.value = CancellationError) =>
              fileProcessing' = << >>]_vars
    /\ [](\A i \in 1..Len(fileProcessing) :
            (fileProcessing[i].state = "error" \/ fileProcessing[i].error # << >>) =>
               /\ promise.state = "rejected"
               /\ promise.value.name = "Error"
               /\ fileProcessing[i].error = <<promise.value.message>>)

C14_Witness ==
    /\ processFilePc = "done"
    /\ fileProcessing = << >>
    /\ promise = [state |-> "rejected", value |-> CancellationError]

TokenizerFailed == parser.status \in {"errored", "failed"}

\* C15: once the tokenizer has reported an error, whatever was accumulated
\* before, no success message is posted and the promise is never fulfilled;
\* the error message posted, and the Error the promise rejects with, carry
\* the tokenizer's message unchanged
C15_TokenizerErrorIsPassedThrough ==
    TokenizerFailed =>
        /\ promise.state # "fulfilled"
        /\ \A i \in 1..Len(toCaller) :
             /\ toCaller[i].type # "success"
             /\ toCaller[i].type = "error" =>
                    toCaller[i].error = parser.error.message
        /\ (promise.state = "rejected" /\ promise.value.name = "Error") =>
               promise.value = Error(parser.error.message)
        /\ (promise.state = "rejected" /\ ~isCancelled) =>
               promise.value.name = "Error"
        /\ \A i \in 1..Len(fileProcessing) :
               fileProcessing[i].results = << >>

\* two rows were added, then the unclosed quote was reported
C15_Witness ==
    /\ nAdds >= 2
    /\ parser.status = "failed"
    /\ parser.error.message = QUOTE_NOT_CLOSED
    /\ promise = [state |-> "rejected", value |-> Error(QUOTE_NOT_CLOSED)]

(***************************************************************************)
(* Claims about the histogram keys and the registry                        *)
(***************************************************************************)
\* the number key is the integer k with k <= value * 1000 < k + 1
IsFloorOfMillis(key, value) ==
    /\ key.k = "fin" /\ key.d = 1
    /\ value.k = "fin"
    /\ key.n * value.d <= 1000 * value.n
    /\ 1000 * value.n < (key.n + 1) * value.d

\* C16: when every accepted record so far had the same location and the
\* same value, N of them, the histogram of the location has exactly one
\* entry: the key floor(value * 1000) with the count N
C16_SameValueOneKey ==
    \A x \in BagToSet(seen) :
        BagToSet(seen) = {x} =>
            LET histogram == HistogramOf(accumulator, x[1])
            IN  /\ MapHas(accumulator.locationData, x[1])
                /\ Len(histogram) = 1
                /\ IsFloorOfMillis(histogram[1][1], x[2])
                /\ histogram[1][2] = CopiesIn(x, seen)

C16_Witness ==
    \E x \in BagToSet(seen) :
        /\ BagToSet(seen) = {x}
        /\ CopiesIn(x, seen) >= 3
        /\ Len(HistogramOf(accumulator, x[1])) = 1

\* C17: the registry has exactly the location IDs of the accepted records,
\* in the order of their first occurrence, each with the name of the first
\* accepted record carrying the ID; no step removes or changes an entry
C17_FirstSeenNameWins ==
    /\ [](/\ Len(accumulator.locations) = Len(named)
          /\ \A i \in 1..Len(named) :
               /\ accumulator.locations[i][1] = named[i][1]
               /\ accumulator.locations[i][2] = named[i][2].first)
    /\ [][\A i \in 1..Len(accumulator.locations) :
             /\ i <= Len(accumulator'.locations)
             /\ accumulator'.locations[i] = accumulator.locations[i]]_accVars

\* two accepted records of one location ID carried different names
C17_Witness ==
    \E i \in 1..Len(named) :
        /\ Cardinality(named[i][2].all) >= 2
        /\ MapGet(accumulator.locations, named[i][1]) = named[i][2].first
        /\ nAdds >= 3

\* the accepted records of a location whose value is a finite number
FiniteSeenAt(locationId) == {x \in SeenAt(locationId) : x[2].k = "fin"}

\* C18: every histogram key is the quantized value of a record that passed
\* the characteristic filter and whose ResultValue parsed to a finite
\* number, and every registry entry is the location of such a record
C18_KeysComeFromFiniteValues ==
    /\ \A i \in 1..Len(accumulator.locationData) :
         \A j \in 1..Len(accumulator.locationData[i][2]) :
            \E x \in FiniteSeenAt(accumulator.locationData[i][1]) :
               IsFloorOfMillis(accumulator.locationData[i][2][j][1], x[2])
    /\ \A i \in 1..Len(accumulator.locations) :
         FiniteSeenAt(accumulator.locations[i][1]) # {}

\* the count stored under a key of a histogram, 0 when the key is absent
CountAt(histogram, key) ==
    IF MapHas(histogram, key) THEN MapGet(histogram, key) ELSE 0

\* the number key is floor(value * 1000); the floor of an infinite number
\* is that number
IsFloorKey(key, value) ==
    IF value.k = "fin" THEN IsFloorOfMillis(key, value) ELSE key = value

\* C19: the add of an accepted record, of a negative value too, raises by
\* one the count of one key of the location's histogram, the key
\* floor(value * 1000), and leaves the histogram's other counts as they were
C19_IncrementedKeyIsFloor ==
    [][\A x \in BagToSet(seen') :
          seen' = seen (+) SetToBag({x}) =>
             LET before == HistogramOf(accumulator, x[1])
                 after  == HistogramOf(accumulator', x[1])
             IN  \E j \in 1..Len(after) :
                    /\ IsFloorKey(after[j][1], x[2])
                    /\ after[j][2] = CountAt(before, after[j][1]) + 1
                    /\ \A other \in 1..Len(after) :
                          other # j =>
                             after[other][2] = CountAt(before, after[other][1])
                    /\ \A i \in 1..Len(before) : MapHas(after, before[i][1])]_accVars

\* the value of an accepted record is negative and not a whole number of
\* millidegrees
IsNegativeWithFraction(value) ==
    /\ value.k = "fin"
    /\ value.n < 0
    /\ (1000 * value.n) % value.d # 0

\* -0.0005 was added: its key is -1
C19_Witness ==
    \E x \in BagToSet(seen) :
        /\ IsNegativeWithFraction(x[2])
        /\ CountAt(HistogramOf(accumulator, x[1]), Num(-1, 1)) >= 1
        /\ ~MapHas(HistogramOf(accumulator, x[1]), Num(0, 1))

\* value * 1000 truncated toward zero, as an integer (finite values)
TruncatedMillis(value) ==
    IF value.n >= 0
    THEN (1000 * value.n) \div value.d
    ELSE -((1000 * (-value.n)) \div value.d)

\* C20 as stated: every histogram key is value * 1000 truncated toward
\* zero, for an accepted record of the location with the value (an
\* infinite value is its own truncation)
C20_KeyIsTruncatedTowardZero ==
    \A i \in 1..Len(accumulator.locationData) :
       \A j \in 1..Len(accumulator.locationData[i][2]) :
          LET key == accumulator.locationData[i][2][j][1]
          IN  IF key.k = "fin"
              THEN \E x \in FiniteSeenAt(accumulator.locationData[i][1]) :
                      key = Num(TruncatedMillis(x[2]), 1)
              ELSE \E x \in SeenAt(accumulator.locationData[i][1]) :
                      key = x[2]

\* C20 as amended: every histogram key is value * 1000 rounded down, for
\* an accepted record of the location with the value (an infinite value
\* is its own floor): the
\* truncation toward zero when the value is not negative or is a whole
\* number of millidegrees, and one less than the truncation otherwise
C20_KeyIsRoundedDown ==
    \A i \in 1..Len(accumulator.locationData) :
       \A j \in 1..Len(accumulator.locationData[i][2]) :
          LET key == accumulator.locationData[i][2][j][1]
          IN  IF key.k = "fin"
              THEN \E x \in FiniteSeenAt(accumulator.locationData[i][1]) :
                      key = IF IsNegativeWithFraction(x[2])
                            THEN Num(TruncatedMillis(x[2]) - 1, 1)
                            ELSE Num(TruncatedMillis(x[2]), 1)
              ELSE \E x \in SeenAt(accumulator.locationData[i][1]) :
                      key = x[2]

\* keys of a negative value with a fraction of a millidegree, of a negative
\* whole one and of a positive one are in the histograms
C20_Witness ==
    /\ \E x \in BagToSet(seen) : IsNegativeWithFraction(x[2])
    /\ \E x \in BagToSet(seen) : x[2].k = "fin" /\ x[2].n < 0
                                   /\ ~IsNegativeWithFraction(x[2])
    /\ \E x \in BagToSet(seen) : x[2].k = "fin" /\ x[2].n > 0

(***************************************************************************)
(* Claims about the result map                                             *)
(***************************************************************************)
\* C21: the result map has the key -ALL- exactly when at least one record
\* was accepted, and is empty when none was
C21_AllPresentIffAccepted ==
    results # << >> =>
        /\ MapHas(results[1], "-ALL-") <=> BagCardinality(seen) > 0
        /\ BagCardinality(seen) = 0 => results[1] = << >>

\* results after exactly one accepted record, of a location other than
\* -ALL-, and a rejected one
C21_Witness ==
    /\ results # << >>
    /\ BagCardinality(seen) = 1
    /\ nAdds >= 2
    /\ SeenAt("-ALL-") = {}
    /\ MapHas(results[1], "-ALL-")

\* the number of accepted records of a set of (location, value) pairs
RECURSIVE SeenCopies(_)
SeenCopies(elements) ==
    IF elements = {} THEN 0
    ELSE LET x == CHOOSE e \in elements : TRUE
         IN  CopiesIn(x, seen) + SeenCopies(elements \ {x})

\* C22: every entry of the result map has a count field: for -ALL- the
\* number of all accepted records, for a location the number of its own
C22_ResultsCarryCount ==
    results # << >> =>
        \A i \in 1..Len(results[1]) :
            /\ "count" \in DOMAIN results[1][i][2]
            /\ results[1][i][2].count =
                   IF results[1][i][1] = "-ALL-"
                   THEN BagCardinality(seen)
                   ELSE SeenCopies(SeenAt(results[1][i][1]))

\* the required columns (by their index in REQUIRED_COLUMNS) that no
\* header of the file equals once trimmed, ignoring case
MissingColumns ==
    {k \in 1..Len(REQUIRED_COLUMNS) :
        \A i \in 1..Len(file.lines[1]) :
            ~EqualsIgnoringCase(Trim(file.lines[1][i]), REQUIRED_COLUMNS[k])}

HeaderWritten == file.lines # << >> /\ pos >= 1

\* C23: once the header row of a file lacking several required columns was
\* written, the parser's error is the missing-column error of the first
\* missing one in the order ResultValue, CharacteristicName,
\* MonitoringLocationID, MonitoringLocationName, in its canonical spelling
C23_FirstMissingColumnNamed ==
    (HeaderWritten /\ Cardinality(MissingColumns) >= 2) =>
        \E k \in MissingColumns :
            /\ \A j \in MissingColumns : k <= j
            /\ parser.error =
                   Thrown(<<"Missing required column: ",
                            <<RESULT_VALUE, CHARACTERISTIC_NAME,
                              MONITORING_LOCATION_ID,
                              MONITORING_LOCATION_NAME>>[k],
                            " (case-insensitive)">>)

\* the header has ResultValue (in another spelling) and lacks both
\* CharacteristicName and MonitoringLocationName; the caller was told
C23_Witness ==
    /\ HeaderWritten
    /\ MissingColumns = {2, 4}
    /\ file.lines[1][1] # RESULT_VALUE
    /\ parser.error.thrown
    /\ promise.state = "rejected"
    /\ promise.value = Error(MissingColumnMessage(CHARACTERISTIC_NAME))

\* C24: the columns the parser holds after a valid header row are as many
\* as the (trimmed) headers and in their order: a header equal to a
\* canonical name ignoring case became that name, every other is unchanged
C24_HeadersNormalized ==
    parser.columns # << >> =>
        /\ Len(parser.columns[1]) = Len(HeaderFields)
        /\ \A i \in 1..Len(HeaderFields) :
               IF \E k \in 1..Len(REQUIRED_COLUMNS) :
                      EqualsIgnoringCase(HeaderFields[i], REQUIRED_COLUMNS[k])
               THEN /\ Includes(REQUIRED_COLUMNS, parser.columns[1][i])
                    /\ EqualsIgnoringCase(HeaderFields[i], parser.columns[1][i])
               ELSE parser.columns[1][i] = HeaderFields[i]

\* a header of five columns in reverse order and lower case: the unknown
\* column came first and was kept, the others were respelled
C24_Witness ==
    /\ parser.columns # << >>
    /\ Len(file.lines[1]) = 5
    /\ file.lines[1][1] = toLowerCase(OTHER_COLUMN)
    /\ file.lines[1][2] = toLowerCase(MONITORING_LOCATION_NAME)
    /\ parser.columns[1] =
           <<toLowerCase(OTHER_COLUMN), MONITORING_LOCATION_NAME,
             MONITORING_LOCATION_ID, CHARACTERISTIC_NAME, RESULT_VALUE>>

\* the header at index i is the required column k amid white space
IsPaddedColumn(i, k) ==
    \/ file.lines[1][i] = Padded(REQUIRED_COLUMNS[k])
    \/ file.lines[1][i] = Padded(toLowerCase(REQUIRED_COLUMNS[k]))

WebOutcome ==
    IF TokenizerFailed
    THEN [state |-> "rejected", value |-> Error(parser.error.message)]
    ELSE [state |-> "fulfilled", value |-> ResultsOfEmitted]

\* C27: the promise of CsvParserNode.parseCsv is settled as the web entry
\* point settles its promise for the same rows: rejected with the same
\* error, or fulfilled with the same result structure
C27_NodeDeliversWebOutcome ==
    promise.state # "pending" => promise = WebOutcome

\* C28: when the parser has reached the end of input the promise is
\* fulfilled with the ParseResults; when the parser has reported an error
\* the stream is destroyed and the promise rejected with that error; the
\* promise is never fulfilled with an error nor rejected with results
C28_NodeSettlesByOutcome ==
    /\ parser.status = "ended" =>
           promise = [state |-> "fulfilled", value |-> ParseResults(accumulator)]
    /\ parser.status = "failed" =>
           /\ streamDestroyed
           /\ promise = [state |-> "rejected",
                         value |-> Error(parser.error.message)]
    /\ promise.state = "fulfilled" => parser.status = "ended"
    /\ promise.state = "rejected" => parser.status = "failed"

EntriesOf(map) == {map[i] : i \in 1..Len(map)}

HistogramsOf(acc) ==
    {<<acc.locationData[i][1], EntriesOf(acc.locationData[i][2])>> :
        i \in 1..Len(acc.locationData)}

\* the record a <<location, value>> of the history was added as
RecordOfSeen(x) ==
    CHOOSE r \in QuantizedRecords :
        r.MonitoringLocationID = x[1] /\ parseFloat(r.ResultValue) = x[2]

\* every ordering of the accepted records added so far
OrderingsOfSeen ==
    {q \in [1..BagCardinality(seen) -> BagToSet(seen)] :
        \A x \in BagToSet(seen) :
            Cardinality({i \in 1..BagCardinality(seen) : q[i] = x})
                = CopiesIn(x, seen)}

\* C30: adding the records added so far in any other order gives the same
\* histograms, and the same average for every location and for -ALL-
C30_OrderDoesNotMatter ==
    \A q \in OrderingsOfSeen :
        LET other == readAll(NewAccumulator,
                             [i \in 1..Len(q) |-> RecordOfSeen(q[i])], Len(q))
        IN  /\ HistogramsOf(other) = HistogramsOf(accumulator)
            /\ EntriesOf(getLocationResults(other))
                   = EntriesOf(getLocationResults(accumulator))
            /\ results # << >> =>
                   EntriesOf(getLocationResults(other)) = EntriesOf(results[1])

\* three different records, two of them at one location, were added in one
\* of their six orders and the averages computed
C30_Witness ==
    /\ results # << >>
    /\ BagCardinality(seen) = 3
    /\ Cardinality(OrderingsOfSeen) = 6
    /\ Cardinality(SeenAt("A")) = 2
    /\ Cardinality(SeenAt("B")) = 1

(***************************************************************************)
(* Claims about outcomes, cancellation in the worker and the component     *)
(***************************************************************************)
\* C31: once cancel() has taken effect, the results promise is not rejected
\* with anything but a CancellationError: an error message or error event
\* of the worker handled after cancel() does not make the outcome a failure
C31_NoFailureAfterCancel ==
    (isCancelled /\ promise.state = "rejected") =>
        instanceofCancellationError(promise.value)

C33_NoResultAfterWorkerCancel ==
    [][(workerIsCancelled /\ Len(toCaller') > Len(toCaller)) =>
          toCaller'[Len(toCaller')].type \notin {"success", "error"}]_vars

\* the tokenizer's error was handled after the cancel message: all the
\* worker has posted is the acknowledgement, which is not handled yet
C33_Witness ==
    /\ workerIsCancelled
    /\ workerPc = "failed"
    /\ parser.error.thrown
    /\ toCaller = <<CancelledMessage>>
    /\ promise.state = "pending"

\* the accumulator after the first n records the tokenizer has pushed were
\* added one by one in the order of their pushing
RECURSIVE AddedInOrder(_)
AddedInOrder(n) ==
    IF n = 0 THEN NewAccumulator ELSE add(AddedInOrder(n - 1), emitted[n])

C35_PipeStopsAfterWorkerCancel ==
    [][workerIsCancelled =>
          /\ pos' = pos
          /\ nAdds' = nAdds
          /\ workerPc' = workerPc]_vars

(***************************************************************************)
(* Claims about the shape of the accumulator                               *)
(***************************************************************************)
\* C36: every histogram has at least one key and every count in it is an
\* integer of at least 1; the count getLocationResults divides a location's
\* sum by is therefore at least 1
C36_HistogramsAreNeverEmpty ==
    \A i \in 1..Len(accumulator.locationData) :
        LET histogram == accumulator.locationData[i][2]
        IN  /\ Len(histogram) >= 1
            /\ \A j \in 1..Len(histogram) :
                   histogram[j][2] \in Nat /\ histogram[j][2] >= 1
            /\ HistogramSum(histogram, Len(histogram)).count >= 1

\* a record was rejected and two equal ones were accepted, and the
\* averages were computed
C36_Witness ==
    /\ results # << >>
    /\ nAdds = 3
    /\ BagCardinality(seen) = 2
    /\ Len(accumulator.locationData) = 1
    /\ accumulator.locationData[1][2][1][2] = 2

\* C37: the location IDs of the registry are those that have a histogram;
\* once the results are computed, every key of theirs other than -ALL- is
\* in the registry and every ID of the registry is a key of the results
C37_RegistryMatchesHistograms ==
    /\ MapKeys(accumulator.locations) = MapKeys(accumulator.locationData)
    /\ results # << >> =>
           /\ MapKeys(results[1]) \ {"-ALL-"} \subseteq MapKeys(accumulator.locations)
           /\ MapKeys(accumulator.locations) \subseteq MapKeys(results[1])

\* records of two locations were accepted and one record was rejected;
\* the results have the two locations and -ALL-
C37_Witness ==
    /\ results # << >>
    /\ nAdds = 3
    /\ BagCardinality(seen) = 2
    /\ MapKeys(accumulator.locations) = {"A", "B"}
    /\ MapKeys(results[1]) = {"A", "B", "-ALL-"}

\* C38: the overall entry is an entry of its own beside those of the
\* locations of the registry, and the entry under a location's ID holds
\* the average of that location's histogram alone
C38_SentinelIsApart ==
    (results # << >> /\ accumulator.locations # << >>) =>
        /\ Len(results[1]) = Len(accumulator.locations) + 1
        /\ \A i \in 1..Len(accumulator.locations) :
               LET locationId == accumulator.locations[i][1]
                   histogram  == MapGet(accumulator.locationData, locationId)
                   own        == HistogramSum(histogram, Len(histogram))
               IN  /\ MapHas(results[1], locationId)
                   /\ MapGet(results[1], locationId)
                          = [average |-> DividedBy(DividedBy(own.sumMillis, 1000),
                                                   own.count)]

\* C39: from the call of processFile for the second file on, fileProcessing
\* is that of the second file: processing until its own operation has
\* settled and processFile has resumed for it, then completed with the
\* results, or in error with the message, of the second operation
C39_SecondFileKeepsItsState ==
    /\ secondCall.pc = "awaiting" =>
           (fileProcessing = <<Processing>> /\ shownFile = 2)
    /\ secondCall.pc = "done" =>
           /\ fileProcessing # << >>
           /\ shownFile = 2
           /\ IF secondCall.promise.state = "fulfilled"
              THEN /\ fileProcessing[1].state = "completed"
                   /\ fileProcessing[1].results = <<secondCall.promise.value>>
              ELSE /\ fileProcessing[1].state = "error"
                   /\ fileProcessing[1].error = <<secondCall.promise.value.message>>

====
